---- MODULE Spec2Model ----
(***************************************************************************)
(* Call Record and Campaign models of callflow-pro (the two mongoose       *)
(* schemas with their pre-save hooks, methods and virtuals).               *)
(*                                                                         *)
(* A JavaScript Number that can be fractional or non-finite is the pair    *)
(* [n, d]: n/d in lowest terms with d > 0, and d = 0 for the non-finite    *)
(* values (0/0 = NaN, 1/0 = Infinity, -1/0 = -Infinity).  Arithmetic is    *)
(* exact: IEEE rounding and the sign of zero are not modelled.  Counters,  *)
(* second counts and millisecond timestamps are integers.  A property a    *)
(* JavaScript object does not have (undefined) is a field the record does  *)
(* not have.                                                               *)
(***************************************************************************)
EXTENDS Integers, Sequences, FiniteSets, TLC

VARIABLES
    call,        \* the Call document
    callOp,      \* the last operation applied to it
    args,        \* the arguments of that operation
    returned,    \* the value calculateQualificationScore returned last
    calcStreak,  \* calculateQualificationScore calls in a row, counted up to 2
    campaign,    \* the Campaign document
    campOp,      \* the last operation applied to it
    folded,      \* the callData arguments folded into it, in order
    activeArgs,  \* the clock reading of the last isActive call, <<>> before it
    activeResult,\* what that call did: threw, or returned a value
    stored,      \* the Campaign document as the database holds it
    handlers,    \* the request handlers folding a call into that document
    overlapped   \* whether a handler loaded while the other was under way

vars == <<call, callOp, args, returned, calcStreak,
          campaign, campOp, folded, activeArgs, activeResult,
          stored, handlers, overlapped>>

callVars == <<call, callOp, args, returned, calcStreak>>

campVars == <<campaign, campOp, folded, activeArgs, activeResult,
              stored, handlers, overlapped>>

raceVars == <<stored, handlers, overlapped>>

activeVars == <<activeArgs, activeResult>>

----------------------------------------------------------------------------
(* JavaScript values *)

Has(obj, f) == f \in DOMAIN obj

Put(obj, f, v) == [g \in DOMAIN obj \cup {f} |-> IF g = f THEN v ELSE obj[g]]

Abs(i) == IF i < 0 THEN -i ELSE i

Sign(i) == IF i < 0 THEN -1 ELSE IF i > 0 THEN 1 ELSE 0

RECURSIVE Gcd(_, _)
Gcd(a, b) == IF b = 0 THEN a ELSE Gcd(b, a % b)

Num(n, d) ==
    IF d = 0 THEN [n |-> Sign(n), d |-> 0]
    ELSE LET g == Gcd(Abs(n), Abs(d))
         IN  [n |-> (Sign(d) * n) \div g, d |-> Abs(d) \div g]

Whole(i) == [n |-> i, d |-> 1]

IsFinite(x) == x.d # 0

Add(x, y) == Num(x.n * y.d + y.n * x.d, x.d * y.d)

Sub(x, y) == Num(x.n * y.d - y.n * x.d, x.d * y.d)

Mul(x, y) == Num(x.n * y.n, x.d * y.d)

Div(x, y) == Num(x.n * y.d, x.d * y.n)

\* x > 0 as JavaScript evaluates it: false for NaN
Positive(x) == x.n > 0

\* ToBoolean of a Number: false for 0 and NaN
Truthy(x) == x.n # 0

----------------------------------------------------------------------------
(* Call Record *)

Statuses == {"initiated", "ringing", "answered", "completed", "failed", "no_answer", "busy"}

TerminalStatuses == {"completed", "failed", "no_answer", "busy"}

\* event timestamps, in milliseconds
Times == {0, 500, 125500}

PerMinutes == {Whole(0), Whole(3)}

QualityScores == {4}

RevenueAmounts == {Whole(0), Whole(50)}

LeadBudgetMins == {2000}

\* schema defaults plus the fields the constructor was given
NewCall(perMinute, quality, amount, leadData) ==
    [ status   |-> "initiated",
      timing   |-> [initiatedAt |-> 0, duration |-> 0, waitTime |-> 0],
      quality  |-> quality,
      cost     |-> [perMinute |-> perMinute, total |-> Whole(0)],
      revenue  |-> [amount |-> amount],
      leadData |-> leadData ]

Qualities(scores) == {[issues |-> {}]} \cup {[issues |-> {}, score |-> s] : s \in scores}

LeadDatas(mins) ==
    {[isQualified |-> FALSE]} \cup {[isQualified |-> FALSE, budget |-> [min |-> m]] : m \in mins}

\* callPreSave with the quotients truncated toward zero instead of floored
callPreSave_Truncates(c) ==
    LET t  == c.timing
        Trunc(ms) == Sign(ms) * (Abs(ms) \div 1000)
        c1 == IF Has(t, "answeredAt") /\ Has(t, "endedAt")
              THEN [c EXCEPT !.timing.duration = Trunc(t.endedAt - t.answeredAt)]
              ELSE c
        c2 == IF Has(t, "ringingAt") /\ Has(t, "answeredAt")
              THEN [c1 EXCEPT !.timing.waitTime = Trunc(t.answeredAt - t.ringingAt)]
              ELSE c1
    IN  IF c2.timing.duration > 0 /\ Positive(c2.cost.perMinute)
        THEN [c2 EXCEPT !.cost.total =
                  Mul(Div(Whole(c2.timing.duration), Whole(60)), c2.cost.perMinute)]
        ELSE c2

callPreSave(c) ==
    LET t  == c.timing
        c1 == IF Has(t, "answeredAt") /\ Has(t, "endedAt")
              THEN [c EXCEPT !.timing.duration = (t.endedAt - t.answeredAt) \div 1000]
              ELSE c
        c2 == IF Has(t, "ringingAt") /\ Has(t, "answeredAt")
              THEN [c1 EXCEPT !.timing.waitTime = (t.answeredAt - t.ringingAt) \div 1000]
              ELSE c1
    IN  IF c2.timing.duration > 0 /\ Positive(c2.cost.perMinute)
        THEN [c2 EXCEPT !.cost.total =
                  Mul(Div(Whole(c2.timing.duration), Whole(60)), c2.cost.perMinute)]
        ELSE c2

\* updateStatus that also stamps initiatedAt when the status is initiated
updateStatus_StampsInitiated(c, newStatus, timestamp) ==
    LET c1 == [c EXCEPT !.status = newStatus]
    IN  CASE newStatus = "initiated" ->
               [c1 EXCEPT !.timing = Put(c.timing, "initiatedAt", timestamp)]
          [] newStatus = "ringing" ->
               [c1 EXCEPT !.timing = Put(c.timing, "ringingAt", timestamp)]
          [] newStatus = "answered" ->
               [c1 EXCEPT !.timing = Put(c.timing, "answeredAt", timestamp)]
          [] newStatus \in TerminalStatuses ->
               [c1 EXCEPT !.timing = Put(c.timing, "endedAt", timestamp)]
          [] OTHER -> c1

updateStatus(c, newStatus, timestamp) ==
    LET c1 == [c EXCEPT !.status = newStatus]
    IN  CASE newStatus = "ringing" ->
               [c1 EXCEPT !.timing = Put(c.timing, "ringingAt", timestamp)]
          [] newStatus = "answered" ->
               [c1 EXCEPT !.timing = Put(c.timing, "answeredAt", timestamp)]
          [] newStatus \in TerminalStatuses ->
               [c1 EXCEPT !.timing = Put(c.timing, "endedAt", timestamp)]
          [] OTHER -> c1

\* qualificationScore with duration tiers that add up instead of excluding
\* each other
qualificationScore_TiersAddUp(c) ==
    LET d == c.timing.duration
        durationPoints == (IF d >= 300 THEN 25 ELSE 0) + (IF d >= 180 THEN 15 ELSE 0)
                              + (IF d >= 60 THEN 10 ELSE 0)
        qualityPoints  == IF Has(c.quality, "score") /\ c.quality.score >= 4 THEN 20
                          ELSE IF Has(c.quality, "score") /\ c.quality.score >= 3 THEN 10
                          ELSE 0
        revenuePoints  == IF Positive(c.revenue.amount) THEN 30 ELSE 0
        budgetPoints   == IF /\ Has(c.leadData, "budget")
                             /\ Has(c.leadData.budget, "min")
                             /\ c.leadData.budget.min > 1000
                          THEN 15 ELSE 0
    IN  durationPoints + qualityPoints + revenuePoints + budgetPoints

\* qualificationScore with the top duration tier at more than 300 s
qualificationScore_StrictTopTier(c) ==
    LET d == c.timing.duration
        durationPoints == IF d > 300 THEN 25
                          ELSE IF d >= 180 THEN 15
                          ELSE IF d >= 60 THEN 10
                          ELSE 0
        qualityPoints  == IF Has(c.quality, "score") /\ c.quality.score >= 4 THEN 20
                          ELSE IF Has(c.quality, "score") /\ c.quality.score >= 3 THEN 10
                          ELSE 0
        revenuePoints  == IF Positive(c.revenue.amount) THEN 30 ELSE 0
        budgetPoints   == IF /\ Has(c.leadData, "budget")
                             /\ Has(c.leadData.budget, "min")
                             /\ c.leadData.budget.min > 1000
                          THEN 15 ELSE 0
    IN  durationPoints + qualityPoints + revenuePoints + budgetPoints

\* the value of the local variable score at the return statement
qualificationScore(c) ==
    LET d == c.timing.duration
        durationPoints == IF d >= 300 THEN 25
                          ELSE IF d >= 180 THEN 15
                          ELSE IF d >= 60 THEN 10
                          ELSE 0
        qualityPoints  == IF Has(c.quality, "score") /\ c.quality.score >= 4 THEN 20
                          ELSE IF Has(c.quality, "score") /\ c.quality.score >= 3 THEN 10
                          ELSE 0
        revenuePoints  == IF Positive(c.revenue.amount) THEN 30 ELSE 0
        budgetPoints   == IF /\ Has(c.leadData, "budget")
                             /\ Has(c.leadData.budget, "min")
                             /\ c.leadData.budget.min > 1000
                          THEN 15 ELSE 0
    IN  durationPoints + qualityPoints + revenuePoints + budgetPoints

Min(a, b) == IF a <= b THEN a ELSE b

\* calculateQualificationScore that starts from the stored score, not from 0
calculateQualificationScore_Incremental(c) ==
    LET score == qualificationScore(c)
                    + (IF Has(c.leadData, "qualificationScore")
                       THEN c.leadData.qualificationScore ELSE 0)
        l1 == Put(c.leadData, "qualificationScore", Min(score, 100))
    IN  [c EXCEPT !.leadData = [l1 EXCEPT !.isQualified = score >= 70]]

calculateQualificationScore(c) ==
    LET score == qualificationScore(c)
        l1 == Put(c.leadData, "qualificationScore", Min(score, 100))
    IN  [c EXCEPT !.leadData = [l1 EXCEPT !.isQualified = score >= 70]]

\* a new Call document: the schema defaults and the fields the caller supplies
NewCalls ==
    /\ \E p \in PerMinutes, q \in Qualities(QualityScores),
          a \in RevenueAmounts, l \in LeadDatas(LeadBudgetMins) :
            call = NewCall(p, q, a, l)
    /\ callOp = "new"
    /\ args = <<>>
    /\ returned = 0
    /\ calcStreak = 0

\* a new Call document with no quality, revenue or lead data supplied
LifecycleCalls ==
    /\ \E p \in PerMinutes :
            call = NewCall(p, [issues |-> {}], Whole(0), [isQualified |-> FALSE])
    /\ callOp = "new"
    /\ args = <<>>
    /\ returned = 0
    /\ calcStreak = 0

\* a Call document that no operation touches
IdleCall ==
    /\ call = NewCall(Whole(0), [issues |-> {}], Whole(0), [isQualified |-> FALSE])
    /\ callOp = "new"
    /\ args = <<>>
    /\ returned = 0
    /\ calcStreak = 0

\* inputs of calculateQualificationScore
Durations == {-1, 0, 59, 60, 179, 180, 299, 300, 3600}

AllQualityScores == 1..5

AllRevenueAmounts == {Whole(0), Num(1, 100), Whole(50)}

AllLeadDatas ==
    LeadDatas({0, 1000, 1001, 5000}) \cup {[isQualified |-> FALSE, budget |-> [max |-> 5000]]}

\* a loaded Call document, of any duration, quality, revenue and lead budget
QualificationCalls ==
    /\ \E d \in Durations, q \in Qualities(AllQualityScores),
          a \in AllRevenueAmounts, l \in AllLeadDatas :
            call = [NewCall(Whole(0), q, a, l) EXCEPT !.timing.duration = d]
    /\ callOp = "new"
    /\ args = <<>>
    /\ returned = 0
    /\ calcStreak = 0

UpdateStatus ==
    /\ \E s \in Statuses, ts \in Times :
          /\ call' = updateStatus(call, s, ts)
          /\ args' = <<s, ts>>
    /\ callOp' = "updateStatus"
    /\ calcStreak' = 0
    /\ UNCHANGED <<returned, campVars>>

\* document.save(): the pre('save') hook runs, then the document is written
CallSave ==
    /\ call' = callPreSave(call)
    /\ callOp' = "save"
    /\ args' = <<>>
    /\ calcStreak' = 0
    /\ UNCHANGED <<returned, campVars>>

CalculateQualificationScore ==
    /\ call' = calculateQualificationScore(call)
    /\ returned' = qualificationScore(call)
    /\ callOp' = "calculateQualificationScore"
    /\ args' = <<>>
    /\ calcStreak' = Min(calcStreak + 1, 2)
    /\ UNCHANGED campVars

----------------------------------------------------------------------------
(* Campaign *)

\* bound on the number of calls folded into the campaign
MaxCalls == 3

\* "HH:MM" as its characters: the digits, and the colon that sorts after them
Colon == 10

TimeString(hours, minutes) ==
    <<hours \div 10, hours % 10, Colon, minutes \div 10, minutes % 10>>

\* a >= b on strings: code unit by code unit, a proper prefix sorting first
RECURSIVE StringGeq(_, _)
StringGeq(a, b) ==
    IF b = <<>> THEN TRUE
    ELSE IF a = <<>> THEN FALSE
    ELSE IF Head(a) # Head(b) THEN Head(a) > Head(b)
    ELSE StringGeq(Tail(a), Tail(b))

Weekdays == {"monday", "tuesday", "wednesday", "thursday", "friday", "saturday", "sunday"}

CampaignStatuses == {"draft", "active", "paused", "completed", "cancelled"}

\* a new Campaign document: the schema defaults, daily = 100, total = 1000,
\* a schedule from time 1000 to time 2000;
\* modified is the set of paths mongoose has marked modified since the last save
NewCampaign ==
    [ status      |-> "draft",
      schedule    |-> [startDate |-> 1000, endDate |-> 2000,
                       activeHours |-> [start |-> TimeString(9, 0), end |-> TimeString(17, 0)],
                       activeDays |-> Weekdays \ {"saturday", "sunday"}],
      budget      |-> [daily |-> Whole(100), total |-> Whole(1000),
                       spent |-> Whole(0), remaining |-> Whole(1000)],
      performance |-> [totalCalls |-> 0, totalDuration |-> 0,
                       averageDuration |-> Whole(0), conversionRate |-> Whole(0),
                       costPerCall |-> Whole(0), revenuePerCall |-> Whole(0),
                       roi |-> Whole(0)],
      modified    |-> {} ]

CallDataDurations == {60, 120}

CallDataCosts == {Whole(0), Whole(20)}

CallDataRevenues == {Whole(0), Whole(100)}

\* the callData arguments: each of duration, cost and revenue present or not
CallDatas ==
    { [f \in D |-> full[f]] :
        full \in [duration : CallDataDurations, cost : CallDataCosts,
                  revenue : CallDataRevenues],
        D \in SUBSET {"duration", "cost", "revenue"} }

\* a nested-path assignment: the new value, and the path marked modified when
\* the value differs from the old one
SetSpent(c, v) ==
    [c EXCEPT !.budget.spent = v,
              !.modified = IF v = c.budget.spent THEN @ ELSE @ \cup {"budget.spent"}]

efficiency(c) ==
    IF c.performance.totalCalls > 0
    THEN Div(c.performance.revenuePerCall, c.performance.costPerCall)
    ELSE Whole(0)

\* campaignPreSave without the recomputation of budget.remaining
campaignPreSave_NoRecompute(c) == c

campaignPreSave(c) ==
    IF "budget.spent" \in c.modified
    THEN [c EXCEPT !.budget.remaining = Sub(c.budget.total, c.budget.spent)]
    ELSE c

\* callData.duration || 0
DurationOrZero(callData) ==
    IF Has(callData, "duration") /\ callData.duration # 0 THEN callData.duration ELSE 0

\* foldCounters with the average taken before the call's duration is added
foldCounters_StaleAverage(c, callData) ==
    LET calls    == c.performance.totalCalls + 1
        duration == c.performance.totalDuration + DurationOrZero(callData)
    IN  [c EXCEPT !.performance.totalCalls = calls,
                  !.performance.totalDuration = duration,
                  !.performance.averageDuration =
                       Div(Whole(c.performance.totalDuration), Whole(calls))]

foldCounters(c, callData) ==
    LET calls    == c.performance.totalCalls + 1
        duration == c.performance.totalDuration + DurationOrZero(callData)
    IN  [c EXCEPT !.performance.totalCalls = calls,
                  !.performance.totalDuration = duration,
                  !.performance.averageDuration = Div(Whole(duration), Whole(calls))]

\* foldCost with the cost assigned to budget.spent instead of added to it
foldCost_OverwritesSpent(c, callData) ==
    IF Has(callData, "cost") /\ Truthy(callData.cost)
    THEN LET c1 == SetSpent(c, callData.cost)
         IN  [c1 EXCEPT !.performance.costPerCall =
                            Div(c1.budget.spent, Whole(c1.performance.totalCalls))]
    ELSE c

foldCost(c, callData) ==
    IF Has(callData, "cost") /\ Truthy(callData.cost)
    THEN LET c1 == SetSpent(c, Add(c.budget.spent, callData.cost))
         IN  [c1 EXCEPT !.performance.costPerCall =
                            Div(c1.budget.spent, Whole(c1.performance.totalCalls))]
    ELSE c

foldRevenue(c, callData) ==
    IF Has(callData, "revenue") /\ Truthy(callData.revenue)
    THEN LET p   == c.performance
             rpc == Div(Add(Mul(p.revenuePerCall, Whole(p.totalCalls - 1)), callData.revenue),
                        Whole(p.totalCalls))
         IN  [c EXCEPT !.performance.revenuePerCall = rpc,
                       !.performance.roi =
                            Mul(Div(Sub(rpc, p.costPerCall), p.costPerCall), Whole(100))]
    ELSE c

updatePerformance(c, callData) ==
    foldRevenue(foldCost(foldCounters(c, callData), callData), callData)

\* what now.toLocaleDateString('en-US', { weekday: 'lowercase' }) does:
\* 'lowercase' is no value of the weekday option, so an engine with Intl
\* throws a RangeError; an engine built without Intl ignores the options and
\* returns the whole date as text
LocaleDateOutcomes == {"RangeError", "11/3/2026"}

\* isActive with the clock reading now = [time, weekday, hours, minutes] and
\* the outcome localeDate of the toLocaleDateString call
isActive(c, now, localeDate) ==
    IF localeDate = "RangeError"
    THEN [threw |-> TRUE, value |-> FALSE]
    ELSE LET currentTime == TimeString(now.hours, now.minutes)
             currentDay  == localeDate
         IN  [threw |-> FALSE,
              value |-> /\ c.status = "active"
                        /\ now.time >= c.schedule.startDate
                        /\ now.time <= c.schedule.endDate
                        /\ currentDay \in c.schedule.activeDays
                        /\ StringGeq(currentTime, c.schedule.activeHours.start)
                        /\ StringGeq(c.schedule.activeHours.end, currentTime)]

\* clock readings: before and inside the schedule, on a weekday and on a
\* Sunday, before, at the start of and after the active hours
Nows ==
    [time : {500, 1500}, weekday : {"monday", "sunday"}, hours : {8, 9, 18}, minutes : {0, 30}]

\* Campaign documents of every status, with the default or an every-day schedule
ScheduledCampaigns ==
    /\ \E st \in CampaignStatuses, days \in {NewCampaign.schedule.activeDays, Weekdays} :
          campaign = [NewCampaign EXCEPT !.status = st, !.schedule.activeDays = days]
    /\ campOp = "new"
    /\ folded = <<>>
    /\ activeArgs = <<>>
    /\ activeResult = [threw |-> FALSE, value |-> FALSE]
    /\ stored = NewCampaign
    /\ handlers = <<>>
    /\ overlapped = FALSE

IsActive ==
    /\ \E now \in Nows, localeDate \in LocaleDateOutcomes :
          /\ activeArgs' = <<now>>
          /\ activeResult' = isActive(campaign, now, localeDate)
    /\ UNCHANGED <<campaign, campOp, folded, raceVars, callVars>>

FreshCampaign ==
    /\ campaign = NewCampaign
    /\ campOp = "new"
    /\ folded = <<>>
    /\ activeArgs = <<>>
    /\ activeResult = [threw |-> FALSE, value |-> FALSE]
    /\ stored = NewCampaign
    /\ handlers = <<>>
    /\ overlapped = FALSE

UpdatePerformance ==
    /\ Len(folded) < MaxCalls
    /\ \E callData \in CallDatas :
          /\ campaign' = updatePerformance(campaign, callData)
          /\ folded' = Append(folded, callData)
    /\ campOp' = "updatePerformance"
    /\ UNCHANGED <<activeVars, raceVars, callVars>>

\* document.save(): the pre('save') hook runs, the document is written and
\* its modified paths are reset
CampaignSave ==
    /\ campaign' = [campaignPreSave(campaign) EXCEPT !.modified = {}]
    /\ campOp' = "save"
    /\ UNCHANGED <<folded, activeVars, raceVars, callVars>>

----------------------------------------------------------------------------
(* Two request handlers folding one call each into the same Campaign *)

Handlers == {1, 2}

\* each handler's call: a duration and a positive cost
HandlerCallDatas == [duration : CallDataDurations, cost : {Whole(20), Whole(30)}]

\* the document in the database after doc.save(): the paths whose value the
\* handler changed since it loaded the document are written, the others keep
\* what the database holds
Persist(db, doc, loaded) ==
    [db EXCEPT
        !.budget = [f \in DOMAIN db.budget |->
                       IF doc.budget[f] # loaded.budget[f] THEN doc.budget[f] ELSE db.budget[f]],
        !.performance = [f \in DOMAIN db.performance |->
                       IF doc.performance[f] # loaded.performance[f]
                       THEN doc.performance[f] ELSE db.performance[f]]]

\* a persisted fresh Campaign and two handlers that have not started
PersistedCampaign ==
    /\ campaign = NewCampaign
    /\ campOp = "new"
    /\ folded = <<>>
    /\ activeArgs = <<>>
    /\ activeResult = [threw |-> FALSE, value |-> FALSE]
    /\ stored = NewCampaign
    /\ \E d \in [Handlers -> HandlerCallDatas] :
          handlers = [h \in Handlers |->
                        [pc |-> "start", callData |-> d[h],
                         loaded |-> NewCampaign, doc |-> NewCampaign]]
    /\ overlapped = FALSE

UnderWay(h) == handlers[h].pc \in {"loaded", "folded"}

\* Campaign.findById
Load(h) ==
    /\ handlers[h].pc = "start"
    /\ handlers' = [handlers EXCEPT ![h].pc = "loaded", ![h].loaded = stored,
                                     ![h].doc = stored]
    /\ overlapped' = (overlapped \/ \E o \in Handlers \ {h} : UnderWay(o))
    /\ UNCHANGED <<stored, campaign, campOp, folded, activeVars, callVars>>

\* campaign.updatePerformance(callData) on the handler's own copy
Fold(h) ==
    /\ handlers[h].pc = "loaded"
    /\ handlers' = [handlers EXCEPT
                        ![h].pc = "folded",
                        ![h].doc = updatePerformance(handlers[h].doc, handlers[h].callData)]
    /\ UNCHANGED <<stored, overlapped, campaign, campOp, folded, activeVars, callVars>>

\* campaign.save(): the pre('save') hook, then the write
Save(h) ==
    /\ handlers[h].pc = "folded"
    /\ stored' = Persist(stored, campaignPreSave(handlers[h].doc), handlers[h].loaded)
    /\ handlers' = [handlers EXCEPT ![h].pc = "done"]
    /\ UNCHANGED <<overlapped, campaign, campOp, folded, activeVars, callVars>>

----------------------------------------------------------------------------

NextRace == \E h \in Handlers : Load(h) \/ Fold(h) \/ Save(h)

InitRace == IdleCall /\ PersistedCampaign

SpecRace == InitRace /\ [][NextRace]_vars

NextCall == UpdateStatus \/ CallSave \/ CalculateQualificationScore

InitCall == NewCalls /\ FreshCampaign

SpecCall == InitCall /\ [][NextCall]_vars

NextLifecycle == UpdateStatus \/ CallSave

InitLifecycle == LifecycleCalls /\ FreshCampaign

SpecLifecycle == InitLifecycle /\ [][NextLifecycle]_vars

NextQualification == CalculateQualificationScore

NextCampaign == UpdatePerformance \/ CampaignSave

InitCampaign == IdleCall /\ FreshCampaign

SpecCampaign == InitCampaign /\ [][NextCampaign]_vars

NextActive == IsActive

InitActive == IdleCall /\ ScheduledCampaigns

SpecActive == InitActive /\ [][NextActive]_vars

InitQualification == QualificationCalls /\ FreshCampaign

SpecQualification == InitQualification /\ [][NextQualification]_vars

----------------------------------------------------------------------------
(* Call Record: status and timing *)

Rank(status) ==
    CASE status = "initiated" -> 0
      [] status = "ringing"   -> 1
      [] status = "answered"  -> 2
      [] OTHER                -> 3

TimingFields == {"ringingAt", "answeredAt", "endedAt"}

\* C1: the status only moves forward through initiated, ringing, answered,
\* terminal, and a terminal status (completed, failed, no_answer, busy) is
\* never changed by a later updateStatus.
C1_StatusMonotonic ==
    [][ /\ Rank(call'.status) >= Rank(call.status)
        /\ (call.status \in TerminalStatuses => call'.status = call.status) ]_vars

\* C2: each of ringingAt, answeredAt and endedAt is assigned at most once: a
\* field that holds a timestamp keeps that timestamp in every later step.
C2_TimestampsSetOnce ==
    [][ \A f \in TimingFields :
            Has(call.timing, f) =>
                Has(call'.timing, f) /\ call'.timing[f] = call.timing[f] ]_vars

\* C3: in every reachable state timing.duration is at least 0.
C3_DurationNonNegative == call.timing.duration >= 0

\* C4: right after every persist, cost.total is (duration / 60) x perMinute
\* for the record's current duration and rate (stated here for the records
\* whose duration is not negative).
C4_CostTotalAfterSave ==
    (callOp = "save" /\ call.timing.duration >= 0) =>
        call.cost.total = Mul(Div(Whole(call.timing.duration), Whole(60)), call.cost.perMinute)

----------------------------------------------------------------------------
(* Call Record: qualification score *)

DurationComponent(d) ==
    IF d >= 300 THEN 25 ELSE IF d >= 180 THEN 15 ELSE IF d >= 60 THEN 10 ELSE 0

QualityComponent(q) ==
    IF ~Has(q, "score") THEN 0
    ELSE IF q.score >= 4 THEN 20 ELSE IF q.score >= 3 THEN 10 ELSE 0

RevenueComponent(a) == IF a.d # 0 /\ a.n > 0 THEN 30 ELSE 0

BudgetComponent(l) ==
    IF Has(l, "budget") /\ Has(l.budget, "min") /\ l.budget.min > 1000 THEN 15 ELSE 0

ExpectedScore(c) ==
    DurationComponent(c.timing.duration) + QualityComponent(c.quality)
        + RevenueComponent(c.revenue.amount) + BudgetComponent(c.leadData)

\* C10: after calculateQualificationScore the stored qualificationScore is
\* min(score, 100) and isQualified is (score >= 70), where score is the sum
\* of the duration (25/15/10/0), quality (20/10/0), revenue (30/0) and lead
\* budget (15/0) components of the record.
C10_QualificationScore ==
    callOp = "calculateQualificationScore" =>
        /\ Has(call.leadData, "qualificationScore")
        /\ call.leadData.qualificationScore = Min(ExpectedScore(call), 100)
        /\ call.leadData.isQualified = (ExpectedScore(call) >= 70)

\* a qualified call right on the 300 s and quality 4 boundaries, and an
\* unqualified one that has revenue
C10_Witness ==
    /\ callOp = "calculateQualificationScore"
    /\ call.timing.duration = 300
    /\ Has(call.quality, "score") /\ call.quality.score = 4
    /\ call.revenue.amount = Whole(50)
    /\ ~Has(call.leadData, "budget")
    /\ call.leadData.qualificationScore = 75
    /\ call.leadData.isQualified

\* the stored qualification of c is the qualification function of c's fields
QualificationCurrent(c) ==
    /\ Has(c.leadData, "qualificationScore")
    /\ c.leadData.qualificationScore = Min(ExpectedScore(c), 100)
    /\ c.leadData.isQualified = (ExpectedScore(c) >= 70)

\* C11: in every persisted state the stored qualificationScore and
\* isQualified are the qualification function of the record's current
\* duration, quality score, revenue amount and lead budget minimum (stated
\* here for the records that hold a qualificationScore at all).
C11_QualificationCurrentAfterSave ==
    (callOp = "save" /\ Has(call.leadData, "qualificationScore")) =>
        QualificationCurrent(call)

\* the timing field updateStatus stamps for a status; none for initiated
StampedField(status) ==
    CASE status = "ringing"           -> {"ringingAt"}
      [] status = "answered"          -> {"answeredAt"}
      [] status \in TerminalStatuses  -> {"endedAt"}
      [] OTHER                        -> {}

\* C13: updateStatus(newStatus, timestamp) sets status to newStatus, assigns
\* timestamp to exactly the timing field that matches newStatus, and leaves
\* every other timing field, duration, waitTime and the cost unchanged.
C13_UpdateStatusFrame ==
    [][ callOp' = "updateStatus" =>
          LET newStatus == args'[1]
              timestamp == args'[2]
              stamped   == StampedField(newStatus)
          IN  /\ call'.status = newStatus
              /\ DOMAIN call'.timing = DOMAIN call.timing \cup stamped
              /\ \A f \in stamped : call'.timing[f] = timestamp
              /\ \A f \in DOMAIN call.timing \ stamped : call'.timing[f] = call.timing[f]
              /\ call'.cost = call.cost
              /\ call'.quality = call.quality
              /\ call'.revenue = call.revenue
              /\ call'.leadData = call.leadData ]_vars

\* a completed call whose stale duration and cost the status change left alone
C13_Witness ==
    /\ callOp = "updateStatus"
    /\ args = <<"completed", 0>>
    /\ call.status = "completed"
    /\ call.timing.endedAt = 0
    /\ Has(call.timing, "answeredAt") /\ call.timing.answeredAt = 0
    /\ call.timing.duration = 125
    /\ call.cost.total = Num(25, 4)

\* C14: on each persist, duration becomes floor((endedAt - answeredAt) / 1000)
\* when both timestamps are set and waitTime becomes
\* floor((answeredAt - ringingAt) / 1000) when both are set; otherwise the
\* field keeps its prior value.
C14_PersistRecomputes ==
    [][ callOp' = "save" =>
          LET t == call.timing
          IN  /\ call'.timing.duration =
                     IF Has(t, "answeredAt") /\ Has(t, "endedAt")
                     THEN (t.endedAt - t.answeredAt) \div 1000
                     ELSE t.duration
              /\ call'.timing.waitTime =
                     IF Has(t, "ringingAt") /\ Has(t, "answeredAt")
                     THEN (t.answeredAt - t.ringingAt) \div 1000
                     ELSE t.waitTime ]_vars

\* persisted with answered at 500 and ended at 125500 (125 s), and no ringing
\* timestamp, so that waitTime keeps its default
C14_Witness ==
    /\ callOp = "save"
    /\ ~Has(call.timing, "ringingAt")
    /\ Has(call.timing, "answeredAt") /\ call.timing.answeredAt = 500
    /\ Has(call.timing, "endedAt") /\ call.timing.endedAt = 125500
    /\ call.timing.duration = 125
    /\ call.timing.waitTime = 0

\* C15: a second calculateQualificationScore right after a first one returns
\* the same score and stores the same qualificationScore and isQualified.
C15_CalculateTwice ==
    [][ (callOp = "calculateQualificationScore" /\ callOp' = "calculateQualificationScore") =>
          /\ returned' = returned
          /\ call'.leadData.qualificationScore = call.leadData.qualificationScore
          /\ call'.leadData.isQualified = call.leadData.isQualified ]_vars

\* two calls in a row on a record that scores 75
C15_Witness ==
    /\ calcStreak = 2
    /\ returned = 75
    /\ call.leadData.qualificationScore = 75
    /\ call.leadData.isQualified

\* C17: the accumulated score is at most 90, so the returned score equals the
\* stored qualificationScore, and isQualified holds only with revenue.amount > 0.
C17_ScoreAtMost90 ==
    callOp = "calculateQualificationScore" =>
        /\ returned <= 90
        /\ returned = call.leadData.qualificationScore
        /\ (call.leadData.isQualified => Positive(call.revenue.amount))

\* the maximal record: 25 + 20 + 30 + 15
C17_Witness ==
    /\ callOp = "calculateQualificationScore"
    /\ returned = 90
    /\ call.leadData.qualificationScore = 90
    /\ call.leadData.isQualified

----------------------------------------------------------------------------
(* Campaign: budget and performance *)

RECURSIVE SumDurations(_)
SumDurations(calls) ==
    IF calls = <<>> THEN 0
    ELSE LET d == Head(calls)
         IN  (IF Has(d, "duration") THEN d.duration ELSE 0) + SumDurations(Tail(calls))

RECURSIVE SumRevenues(_)
SumRevenues(calls) ==
    IF calls = <<>> THEN Whole(0)
    ELSE LET d == Head(calls)
         IN  Add(IF Has(d, "revenue") THEN d.revenue ELSE Whole(0), SumRevenues(Tail(calls)))

RemainingIsTotalMinusSpent ==
    campaign.budget.remaining = Sub(campaign.budget.total, campaign.budget.spent)

\* C5 as stated: budget.remaining = budget.total - budget.spent right after
\* updatePerformance has added a cost to budget.spent, before any persist.
C5_RemainingAfterSpentMutation ==
    campOp = "updatePerformance" => RemainingIsTotalMinusSpent

\* C5 as amended: budget.remaining = budget.total - budget.spent right after
\* every persist of a Campaign that was created with the default spent and
\* remaining and whose budget only updatePerformance changes.
C5_RemainingAfterSave ==
    campOp = "save" => RemainingIsTotalMinusSpent

\* three calls costing 20 each folded in, then persisted: spent 60, remaining 940
C5_Witness ==
    /\ campOp = "save"
    /\ Len(folded) = 3
    /\ campaign.budget.spent = Whole(60)
    /\ campaign.budget.remaining = Whole(940)

\* C6: after folding n >= 1 calls into a fresh Campaign, totalCalls = n,
\* totalDuration = the sum of the folded durations (a missing one counts 0)
\* and averageDuration = totalDuration / totalCalls.
C6_FoldedCounters ==
    Len(folded) >= 1 =>
        /\ campaign.performance.totalCalls = Len(folded)
        /\ campaign.performance.totalDuration = SumDurations(folded)
        /\ campaign.performance.averageDuration =
               Div(Whole(SumDurations(folded)), Whole(Len(folded)))

\* durations 60, 120 and none folded in: 3 calls, 180 s in total, 60 s on average
C6_Witness ==
    /\ Len(folded) = 3
    /\ Has(folded[1], "duration") /\ folded[1].duration = 60
    /\ Has(folded[2], "duration") /\ folded[2].duration = 120
    /\ ~Has(folded[3], "duration")
    /\ campaign.performance.totalCalls = 3
    /\ campaign.performance.totalDuration = 180
    /\ campaign.performance.averageDuration = Whole(60)

\* C7: costPerCall = budget.spent / totalCalls in every state with
\* totalCalls > 0, whatever costs (positive, zero, none) the calls carried.
C7_CostPerCallIsAverage ==
    campaign.performance.totalCalls > 0 =>
        campaign.performance.costPerCall =
            Div(campaign.budget.spent, Whole(campaign.performance.totalCalls))

\* C8: revenuePerCall x totalCalls = the sum of the revenues of all folded
\* calls, whatever revenues (positive, zero, none) the calls carried.
C8_RevenuePerCallIsAverage ==
    Mul(campaign.performance.revenuePerCall, Whole(campaign.performance.totalCalls))
        = SumRevenues(folded)

\* C9: performance.roi and the efficiency virtual are always finite values,
\* never the result of a division by zero.
C9_RatiosFinite ==
    /\ IsFinite(campaign.performance.roi)
    /\ IsFinite(efficiency(campaign))

----------------------------------------------------------------------------
(* Campaign: schedule *)

\* minutes since midnight of an "HH:MM" string
MinuteOfDay(str) == (str[1] * 10 + str[2]) * 60 + str[4] * 10 + str[5]

\* the claimed predicate for a campaign and a clock reading
WithinSchedule(c, now) ==
    /\ c.status = "active"
    /\ now.time >= c.schedule.startDate
    /\ now.time <= c.schedule.endDate
    /\ now.weekday \in c.schedule.activeDays
    /\ now.hours * 60 + now.minutes >= MinuteOfDay(c.schedule.activeHours.start)
    /\ now.hours * 60 + now.minutes <= MinuteOfDay(c.schedule.activeHours.end)

\* C12: isActive returns a boolean, true exactly when the status is active,
\* the time is within [startDate, endDate], the weekday is an active day and
\* HH:MM is within the active hours; so false for every other status.
C12_IsActiveIff ==
    activeArgs # <<>> =>
        /\ ~activeResult.threw
        /\ activeResult.value = WithinSchedule(campaign, activeArgs[1])

----------------------------------------------------------------------------
(* Campaign: two handlers *)

AllDone == \A h \in Handlers : handlers[h].pc = "done"

HandlerCosts == {handlers[h].callData.cost : h \in Handlers}

\* C16: once both handlers have persisted, the stored totalCalls and
\* budget.spent reflect one call only when both loads came before both
\* persists, and both calls when the handlers ran one after the other.
C16_LostUpdate ==
    AllDone =>
        IF overlapped
        THEN /\ stored.performance.totalCalls = 1
             /\ stored.budget.spent \in HandlerCosts
        ELSE /\ stored.performance.totalCalls = 2
             /\ stored.budget.spent =
                    Add(handlers[1].callData.cost, handlers[2].callData.cost)

\* calls costing 20 and 30, loaded together: one call and 20 spent remain
C16_Witness ==
    /\ AllDone
    /\ overlapped
    /\ handlers[1].callData.cost = Whole(20)
    /\ handlers[2].callData.cost = Whole(30)
    /\ stored.performance.totalCalls = 1
    /\ stored.budget.spent = Whole(20)
    /\ stored.budget.remaining = Whole(980)

====
